---- MODULE Spec2Model ----
(***************************************************************************)
(* Model of the rough dielectric BSDF of src/src/bsdfs/roughdielectric.cpp *)
(* (class RoughDielectric).                                                *)
(*                                                                         *)
(* Two specifications share the variables:                                 *)
(*   Spec       the life cycle of one material instance: construction from *)
(*              properties, addChild, configure, and restoring from a      *)
(*              stream;                                                    *)
(*   SpecQuery  a configured material answering eval / pdf / sample calls  *)
(*              on a query record.                                         *)
(*                                                                         *)
(* Floats are modelled as exact rationals <<n, d>> (d > 0, lowest terms).  *)
(* The values returned by the collaborators whose code is not part of the  *)
(* file (microfacet distribution, Fresnel evaluator, textures) are kept as *)
(* symbols that carry their arguments; whether such a value is zero is     *)
(* drawn once per behaviour (variable env).                                *)
(***************************************************************************)
EXTENDS Integers, Sequences, FiniteSets, TLC

VARIABLES
    pc,                       \* life cycle of the instance
    error,                    \* which Log(EError, ...) was raised, or "none"
    m_intIOR, m_extIOR,
    m_distribution,
    m_alphaU, m_alphaV,
    m_specularReflectance, m_specularTransmittance,
    m_components,
    m_usesRayDifferentials,
    nChildren,                \* addChild calls made so far
    baseAddChild,             \* a child was handed on to BSDF::addChild
    origin,                   \* which constructor made the instance
    env,                      \* what the collaborators return (SpecQuery)
    bRec,                     \* the query record (SpecQuery)
    call                      \* the last eval / pdf / sample call (SpecQuery)

matVars == <<m_intIOR, m_extIOR, m_distribution, m_alphaU, m_alphaV,
             m_specularReflectance, m_specularTransmittance, m_components,
             m_usesRayDifferentials>>
setupVars == <<pc, error, nChildren, baseAddChild, origin>>
queryVars == <<env, bRec, call>>
vars == <<pc, error, m_intIOR, m_extIOR, m_distribution, m_alphaU, m_alphaV,
          m_specularReflectance, m_specularTransmittance, m_components,
          m_usesRayDifferentials, nChildren, baseAddChild, origin, env, bRec,
          call>>

(***************************************************************************)
(* Bounds                                                                  *)
(***************************************************************************)
\* addChild calls per instance
MaxChildren == 2

(***************************************************************************)
(* Float arithmetic, as exact rationals                                    *)
(***************************************************************************)
RECURSIVE GCD(_, _)
GCD(a, b) == IF b = 0 THEN a ELSE GCD(b, a % b)

IAbs(x) == IF x < 0 THEN -x ELSE x

\* n / d in lowest terms, d # 0
Rat(n, d) ==
    LET s == IF d < 0 THEN -1 ELSE 1
        g == GCD(IAbs(n), IAbs(d))
    IN  <<(s * n) \div g, (s * d) \div g>>

RZero == <<0, 1>>
ROne == <<1, 1>>
\* the operations keep the integers small: common factors are taken out first
RAdd(a, b) ==
    LET g == GCD(a[2], b[2])
    IN  Rat(a[1] * (b[2] \div g) + b[1] * (a[2] \div g), (a[2] \div g) * b[2])
RNeg(a) == <<-a[1], a[2]>>
RSub(a, b) == RAdd(a, RNeg(b))
RMul(a, b) ==
    LET g1 == GCD(IAbs(a[1]), b[2])
        g2 == GCD(IAbs(b[1]), a[2])
    IN  Rat((a[1] \div g1) * (b[1] \div g2), (a[2] \div g2) * (b[2] \div g1))
\* b # 0
RDiv(a, b) ==
    RMul(a, IF b[1] < 0 THEN <<-b[2], -b[1]>> ELSE <<b[2], b[1]>>)
RAbs(a) == <<IAbs(a[1]), a[2]>>
RLt(a, b) ==
    LET g == GCD(a[2], b[2])
    IN  a[1] * (b[2] \div g) < b[1] * (a[2] \div g)
RLe(a, b) == a = b \/ RLt(a, b)
RGt(a, b) == RLt(b, a)
RGe(a, b) == RLe(b, a)

\* the largest k in lo..hi with k * k <= n (lo * lo <= n)
RECURSIVE SqrtSearch(_, _, _)
SqrtSearch(n, lo, hi) ==
    IF lo >= hi THEN lo
    ELSE LET mid == (lo + hi + 1) \div 2
         IN  IF mid * mid <= n THEN SqrtSearch(n, mid, hi)
             ELSE SqrtSearch(n, lo, mid - 1)
\* 46340 * 46340 is the largest square of the integers used
ISqrt(n) == SqrtSearch(n, 0, IF n < 46340 THEN n ELSE 46340)
IsSquare(n) == n >= 0 /\ ISqrt(n) * ISqrt(n) = n
\* std::sqrt is modelled where its value is a rational
HasSqrt(a) == IsSquare(a[1]) /\ IsSquare(a[2])
RSqrt(a) == <<ISqrt(a[1]), ISqrt(a[2])>>

(***************************************************************************)
(* Vector, Normal: triples of rationals in the local shading frame         *)
(***************************************************************************)
Vec(x, y, z) == <<x, y, z>>
VAdd(a, b) == <<RAdd(a[1], b[1]), RAdd(a[2], b[2]), RAdd(a[3], b[3])>>
VSub(a, b) == <<RSub(a[1], b[1]), RSub(a[2], b[2]), RSub(a[3], b[3])>>
VScale(a, s) == <<RMul(a[1], s), RMul(a[2], s), RMul(a[3], s)>>
dot(a, b) == RAdd(RAdd(RMul(a[1], b[1]), RMul(a[2], b[2])), RMul(a[3], b[3]))
\* Frame::cosTheta(v): the z-component
cosTheta(v) == v[3]
\* normalize(v) is modelled where |v| is a non-zero rational
CanNormalize(v) == dot(v, v) # RZero /\ HasSqrt(dot(v, v))
normalize(v) == VScale(v, RDiv(ROne, RSqrt(dot(v, v))))

(***************************************************************************)
(* Textures.  A texture object is identified by its id: ref<Texture>       *)
(* comparison is comparison of ids.                                        *)
(***************************************************************************)
Unset == <<>>

\* new ConstantFloatTexture(v) / new ConstantSpectrumTexture(v)
ConstantTexture(id, v) ==
    [id |-> id, value |-> v, constant |-> TRUE, rayDiff |-> FALSE]

NullTexture == [id |-> "null", value |-> RZero, constant |-> TRUE, rayDiff |-> FALSE]

\* textures a scene can attach as children or a stream can hold
TexturePool ==
    { ConstantTexture("texA", Rat(1, 10)),
      ConstantTexture("texB", Rat(1, 5)),
      [id |-> "texC", value |-> Rat(1, 10), constant |-> FALSE, rayDiff |-> TRUE] }

DistTypes == {"EBeckmann", "EAshikhminShirley"}

IORValues == {Rat(-1, 1), RZero, ROne, Rat(4, 3)}

PropsSet ==
    [ intIOR : IORValues, extIOR : IORValues, distribution : DistTypes,
      alpha : {Unset, Rat(1, 5)},
      alphaU : {Unset, Rat(1, 10)},
      alphaV : {Unset, Rat(1, 10), Rat(1, 5)} ]

\* props.getFloat(name, default)
getFloat(v, default) == IF v = Unset THEN default ELSE v

(***************************************************************************)
(* RoughDielectric(const Properties &)                                     *)
(***************************************************************************)
\* the check of the two indices of refraction
IORInvalid(intIOR, extIOR) ==
    RLt(intIOR, RZero) \/ RLt(extIOR, RZero) \/ intIOR = extIOR

Construct(props) ==
    /\ pc = "new"
    /\ origin' = "props"
    /\ m_specularReflectance' = ConstantTexture("ctorRefl", ROne)
    /\ m_specularTransmittance' = ConstantTexture("ctorTrans", ROne)
    /\ m_intIOR' = props.intIOR
    /\ m_extIOR' = props.extIOR
    /\ IF IORInvalid(props.intIOR, props.extIOR)
       THEN /\ pc' = "error"
            /\ error' = "ior"
            /\ UNCHANGED <<m_distribution, m_alphaU, m_alphaV>>
       ELSE LET alpha == getFloat(props.alpha, Rat(1, 10))
                alphaU == getFloat(props.alphaU, alpha)
                alphaV == getFloat(props.alphaV, alpha)
            IN  /\ pc' = "constructed"
                /\ error' = "none"
                /\ m_distribution' = props.distribution
                /\ m_alphaU' = ConstantTexture("ctorAlphaU", alphaU)
                /\ m_alphaV' = IF alphaU = alphaV
                               THEN ConstantTexture("ctorAlphaU", alphaU)
                               ELSE ConstantTexture("ctorAlphaV", alphaV)
    /\ UNCHANGED <<m_components, m_usesRayDifferentials, nChildren,
                   baseAddChild, queryVars>>

(***************************************************************************)
(* addChild                                                                *)
(***************************************************************************)
ChildNames == {"alpha", "alphaU", "alphaV", "specularReflectance",
               "specularTransmittance", "other"}

AddChild(name, child, isTexture) ==
    /\ pc = "constructed"
    /\ nChildren < MaxChildren
    /\ nChildren' = nChildren + 1
    /\ IF isTexture /\ name = "alpha"
       THEN /\ m_alphaU' = child
            /\ m_alphaV' = child
            /\ UNCHANGED <<m_specularReflectance, m_specularTransmittance, baseAddChild>>
       ELSE IF isTexture /\ name = "alphaU"
       THEN /\ m_alphaU' = child
            /\ UNCHANGED <<m_alphaV, m_specularReflectance, m_specularTransmittance, baseAddChild>>
       ELSE IF isTexture /\ name = "alphaV"
       THEN /\ m_alphaV' = child
            /\ UNCHANGED <<m_alphaU, m_specularReflectance, m_specularTransmittance, baseAddChild>>
       ELSE IF isTexture /\ name = "specularReflectance"
       THEN /\ m_specularReflectance' = child
            /\ UNCHANGED <<m_alphaU, m_alphaV, m_specularTransmittance, baseAddChild>>
       ELSE IF isTexture /\ name = "specularTransmittance"
       THEN /\ m_specularTransmittance' = child
            /\ UNCHANGED <<m_alphaU, m_alphaV, m_specularReflectance, baseAddChild>>
       ELSE /\ baseAddChild' = TRUE
            /\ UNCHANGED <<m_alphaU, m_alphaV, m_specularReflectance, m_specularTransmittance>>
    /\ UNCHANGED <<pc, error, origin, m_intIOR, m_extIOR, m_distribution,
                   m_components, m_usesRayDifferentials, queryVars>>

(***************************************************************************)
(* configure                                                               *)
(***************************************************************************)
\* (mutant) the comparison made on the roughness values instead
AlphaDifferByValue(alphaU, alphaV) == alphaU.value # alphaV.value

\* m_alphaU != m_alphaV: two ref<Texture> compare by the object they hold
AlphaDiffer(alphaU, alphaV) == alphaU.id # alphaV.id

\* the error of lines 222-227
AnisotropyUnsupported(alphaU, alphaV, distType) ==
    AlphaDiffer(alphaU, alphaV) /\ distType # "EAshikhminShirley"

extraFlags(alphaU, alphaV) ==
    (IF AlphaDiffer(alphaU, alphaV) THEN {"EAnisotropic"} ELSE {})
    \cup (IF ~alphaU.constant \/ ~alphaV.constant THEN {"ESpatiallyVarying"} ELSE {})

\* (mutant) one spatially-varying flag shared by the two components
ComponentsSharedFlag(alphaU, alphaV, refl, trans) ==
    << {"EGlossyReflection", "EFrontSide", "EBackSide", "ECanUseSampler"}
         \cup extraFlags(alphaU, alphaV)
         \cup (IF refl.constant /\ trans.constant THEN {} ELSE {"ESpatiallyVarying"}),
       {"EGlossyTransmission", "EFrontSide", "EBackSide", "ECanUseSampler"}
         \cup extraFlags(alphaU, alphaV)
         \cup (IF refl.constant /\ trans.constant THEN {} ELSE {"ESpatiallyVarying"}) >>

\* the two entries pushed to m_components
Components(alphaU, alphaV, refl, trans) ==
    << {"EGlossyReflection", "EFrontSide", "EBackSide", "ECanUseSampler"}
         \cup extraFlags(alphaU, alphaV)
         \cup (IF refl.constant THEN {} ELSE {"ESpatiallyVarying"}),
       {"EGlossyTransmission", "EFrontSide", "EBackSide", "ECanUseSampler"}
         \cup extraFlags(alphaU, alphaV)
         \cup (IF trans.constant THEN {} ELSE {"ESpatiallyVarying"}) >>

\* The body of configure() on the fields given; the pool's modulation textures
\* are within the bound ensureEnergyConservation enforces, so it returns them.
ConfigureOn(alphaU, alphaV, refl, trans, distType) ==
    IF AnisotropyUnsupported(alphaU, alphaV, distType)
    THEN /\ pc' = "error"
         /\ error' = "anisotropy"
         /\ UNCHANGED <<m_components, m_usesRayDifferentials>>
    ELSE /\ pc' = "configured"
         /\ error' = "none"
         /\ m_components' = Components(alphaU, alphaV, refl, trans)
         /\ m_usesRayDifferentials' =
               (alphaU.rayDiff \/ alphaV.rayDiff \/ refl.rayDiff \/ trans.rayDiff)

Configure ==
    /\ pc = "constructed"
    /\ ConfigureOn(m_alphaU, m_alphaV, m_specularReflectance,
                   m_specularTransmittance, m_distribution)
    /\ UNCHANGED <<m_intIOR, m_extIOR, m_distribution, m_alphaU, m_alphaV,
                   m_specularReflectance, m_specularTransmittance,
                   nChildren, baseAddChild, origin, queryVars>>

(***************************************************************************)
(* The unserializing constructor, RoughDielectric(Stream, InstanceManager) *)
(***************************************************************************)
StreamSet ==
    [ type : DistTypes, alphaU : TexturePool, alphaV : TexturePool,
      specularReflectance : {ConstantTexture("texR", ROne)},
      specularTransmittance : {ConstantTexture("texT", ROne)},
      intIOR : IORValues, extIOR : IORValues ]

Unserialize(stream) ==
    /\ pc = "new"
    /\ origin' = "stream"
    /\ m_distribution' = stream.type
    /\ m_alphaU' = stream.alphaU
    /\ m_alphaV' = stream.alphaV
    /\ m_specularReflectance' = stream.specularReflectance
    /\ m_specularTransmittance' = stream.specularTransmittance
    /\ m_intIOR' = stream.intIOR
    /\ m_extIOR' = stream.extIOR
    /\ ConfigureOn(stream.alphaU, stream.alphaV, stream.specularReflectance,
                   stream.specularTransmittance, stream.type)
    /\ UNCHANGED <<nChildren, baseAddChild, queryVars>>

(***************************************************************************)
(* The life cycle specification                                            *)
(***************************************************************************)
NoQuery == [wi |-> Unset, wo |-> Unset, component |-> -1, typeMask |-> {},
            quantity |-> "ERadiance", sampledComponent |-> -1,
            sampledType |-> "none"]
NoCall == [op |-> "none", measure |-> "ESolidAngle", m |-> Unset, u |-> <<0, 1>>,
           status |-> "none", n1D |-> 0, nM |-> 0, branch |-> "none",
           alphaM |-> <<>>, pdf |-> [kind |-> "unwritten"],
           result |-> [kind |-> "unwritten"]]
NoEnv == [F |-> <<0, 1>>, Dzero |-> FALSE, Gzero |-> FALSE, Pzero |-> FALSE]

Init ==
    /\ pc = "new"
    /\ error = "none"
    /\ m_intIOR = RZero
    /\ m_extIOR = RZero
    /\ m_distribution = "EBeckmann"
    /\ m_alphaU = NullTexture
    /\ m_alphaV = NullTexture
    /\ m_specularReflectance = NullTexture
    /\ m_specularTransmittance = NullTexture
    /\ m_components = <<>>
    /\ m_usesRayDifferentials = FALSE
    /\ nChildren = 0
    /\ baseAddChild = FALSE
    /\ origin = "none"
    /\ env = NoEnv
    /\ bRec = NoQuery
    /\ call = NoCall

Next ==
    \/ \E props \in PropsSet : Construct(props)
    \/ \E name \in ChildNames, child \in TexturePool, isTexture \in BOOLEAN :
          AddChild(name, child, isTexture)
    \/ Configure
    \/ \E stream \in StreamSet : Unserialize(stream)

Spec == Init /\ [][Next]_vars

(***************************************************************************)
(* Values returned by eval / pdf / sample.                                 *)
(*                                                                         *)
(* A value is coef * (product of symbols ^ exponent).  coef is the part    *)
(* the file computes itself (dot products, cosines, indices); a symbol is  *)
(* one call of a collaborator with its arguments:                          *)
(*   <<"F", c>>  <<"1-F", c>>      fresnel(c, m_extIOR, m_intIOR), 1 - it  *)
(*   <<"D", H, aU, aV>>            m_distribution.eval                     *)
(*   <<"G", wi, wo, H, aU, aV>>    m_distribution.G                        *)
(*   <<"P", H, aU, aV>>            m_distribution.pdf                      *)
(*   <<"tex", id>>                 texture->getValue(bRec.its)             *)
(* kind tells a zero and a non-finite (x/0) value from the others.         *)
(***************************************************************************)
MOne == [s \in {} |-> 0]
MSym(s) == [t \in {s} |-> 1]
MExp(a, s) == IF s \in DOMAIN a THEN a[s] ELSE 0
MMul(a, b) ==
    [s \in {t \in (DOMAIN a) \cup (DOMAIN b) : MExp(a, t) + MExp(b, t) # 0}
        |-> MExp(a, s) + MExp(b, s)]
MInv(a) == [s \in DOMAIN a |-> -a[s]]

VZero == [kind |-> "zero", coef |-> RZero, sym |-> MOne]
VNonFinite == [kind |-> "nonfinite", coef |-> RZero, sym |-> MOne]
VNum(r) == IF r = RZero THEN VZero ELSE [kind |-> "val", coef |-> r, sym |-> MOne]

\* whether the collaborator returns zero for the call s
SymIsZero(s) ==
    CASE s[1] = "F" -> env.F = RZero
      [] s[1] = "1-F" -> env.F = ROne
      [] s[1] = "D" -> env.Dzero
      [] s[1] = "G" -> env.Gzero
      [] s[1] = "P" -> env.Pzero
      [] OTHER -> FALSE

VSym(s) == IF SymIsZero(s) THEN VZero
           ELSE [kind |-> "val", coef |-> ROne, sym |-> MSym(s)]

VMul(a, b) ==
    IF a.kind = "nonfinite" \/ b.kind = "nonfinite" THEN VNonFinite
    ELSE IF a.kind = "zero" \/ b.kind = "zero" THEN VZero
    ELSE [kind |-> "val", coef |-> RMul(a.coef, b.coef), sym |-> MMul(a.sym, b.sym)]

\* a / b; x / 0 is an infinity or a NaN
VDiv(a, b) ==
    IF a.kind = "nonfinite" \/ b.kind # "val" THEN VNonFinite
    ELSE IF a.kind = "zero" THEN VZero
    ELSE [kind |-> "val", coef |-> RDiv(a.coef, b.coef),
          sym |-> MMul(a.sym, MInv(b.sym))]

\* std::abs; the collaborators' values are not negative
VAbs(a) == IF a.kind = "val" THEN [a EXCEPT !.coef = RAbs(a.coef)] ELSE a

(***************************************************************************)
(* Helpers of RoughDielectric                                              *)
(***************************************************************************)
signum(value) == IF RLt(value, RZero) THEN RNeg(ROne) ELSE ROne

reflect(wi, m) == VSub(VScale(m, RMul(Rat(2, 1), dot(wi, m))), wi)

\* 1 + eta * eta * (c*c - 1)
cosThetaTSqr(wi, m, etaI, etaT) ==
    LET eta == RDiv(etaI, etaT)
        c == dot(wi, m)
    IN  RAdd(ROne, RMul(RMul(eta, eta), RSub(RMul(c, c), ROne)))

\* (mutant) refract without the test for total internal reflection: the
\* square root of the negative number is left out of the direction
refractNoTIR(wi, m, etaI, etaT) ==
    LET eta == RDiv(etaI, etaT)
        c == dot(wi, m)
        t2 == cosThetaTSqr(wi, m, etaI, etaT)
        root == IF RLt(t2, RZero) THEN RZero ELSE RSqrt(t2)
    IN  [ok |-> TRUE,
         wo |-> VSub(VScale(m, RSub(RMul(eta, c),
                                    RMul(signum(cosTheta(wi)), root))),
                     VScale(wi, eta))]

\* refract: ok is the bool returned, wo the direction written when ok
refract(wi, m, etaI, etaT) ==
    LET eta == RDiv(etaI, etaT)
        c == dot(wi, m)
        t2 == cosThetaTSqr(wi, m, etaI, etaT)
    IN  IF RLt(t2, RZero)
        THEN [ok |-> FALSE, wo |-> Unset]
        ELSE [ok |-> TRUE,
              wo |-> VSub(VScale(m, RSub(RMul(eta, c),
                                         RMul(signum(cosTheta(wi)), RSqrt(t2)))),
                          VScale(wi, eta))]

\* refract is modelled where the square root it takes is a rational
CanRefract(wi, m, etaI, etaT) ==
    LET t2 == cosThetaTSqr(wi, m, etaI, etaT)
    IN  RLt(t2, RZero) \/ HasSqrt(t2)

\* "Determine the type of interaction"
IsReflect(b) == RGt(RMul(cosTheta(b.wi), cosTheta(b.wo)), RZero)

\* "Determine the appropriate indices of refraction"
EtaI(wi) == IF RLt(cosTheta(wi), RZero) THEN m_intIOR ELSE m_extIOR
EtaT(wi) == IF RLt(cosTheta(wi), RZero) THEN m_extIOR ELSE m_intIOR

hasReflection(b) ==
    (b.component = -1 \/ b.component = 0) /\ "EGlossyReflection" \in b.typeMask
hasTransmission(b) ==
    (b.component = -1 \/ b.component = 1) /\ "EGlossyTransmission" \in b.typeMask

\* "Stop if this component was not requested"
ReflectionNotRequested(b) ==
    (b.component # -1 /\ b.component # 0) \/ ~("EGlossyReflection" \in b.typeMask)
TransmissionNotRequested(b) ==
    (b.component # -1 /\ b.component # 1) \/ ~("EGlossyTransmission" \in b.typeMask)

\* the vector that is normalized to give H
HalfVectorRaw(b) ==
    IF IsReflect(b) THEN VAdd(b.wo, b.wi)
    ELSE VAdd(VScale(b.wi, EtaI(b.wi)), VScale(b.wo, EtaT(b.wi)))

\* (mutant) the half-vector without the flips
HalfVectorNoFlip(b) == normalize(HalfVectorRaw(b))

\* the half-vector H of eval and pdf
HalfVector(b) ==
    IF IsReflect(b)
    THEN VScale(normalize(VAdd(b.wo, b.wi)), signum(cosTheta(b.wo)))
    ELSE VScale(normalize(VAdd(VScale(b.wi, EtaI(b.wi)), VScale(b.wo, EtaT(b.wi)))),
                IF RGt(m_extIOR, m_intIOR) THEN ROne ELSE RNeg(ROne))

\* m_distribution.transformRoughness(texture->getValue(bRec.its).average()):
\* the roughness handed to the distribution, and the factor it was widened by
Roughness(tex) == <<tex.value, <<>>>>
\* (mutant) the roughness left as it is
WidenedNot(alpha, wi) == alpha

\* alpha * (1.2f - 0.2f * std::sqrt(std::abs(Frame::cosTheta(bRec.wi)))): the
\* factor is 1 where |cosTheta(wi)| is 1 and greater than 1 elsewhere
Widened(alpha, wi) ==
    IF RAbs(cosTheta(wi)) = ROne THEN alpha
    ELSE <<alpha[1], <<RAbs(cosTheta(wi))>>>>

(***************************************************************************)
(* eval                                                                    *)
(***************************************************************************)
\* "account for the solid angle compression when tracing radiance": the
\* factor eval multiplies the transmitted value by
EvalRadianceScale(b) ==
    IF b.quantity = "ERadiance"
    THEN RDiv(RMul(EtaI(b.wi), EtaI(b.wi)), RMul(EtaT(b.wi), EtaT(b.wi)))
    ELSE ROne

\* the returns of Spectrum(0.0f) that precede the half-vector
EvalStops(b, measure) ==
    \/ measure # "ESolidAngle"
    \/ IsReflect(b) /\ ReflectionNotRequested(b)
    \/ ~IsReflect(b) /\ TransmissionNotRequested(b)

Eval(b, measure) ==
    IF EvalStops(b, measure) THEN VZero
    ELSE
      LET etaI == EtaI(b.wi)
          etaT == EtaT(b.wi)
          H == HalfVector(b)
          alphaU == Roughness(m_alphaU)
          alphaV == Roughness(m_alphaV)
          D == VSym(<<"D", H, alphaU, alphaV>>)
          F == VSym(<<"F", dot(b.wi, H)>>)
          OneMinusF == VSym(<<"1-F", dot(b.wi, H)>>)
          G == VSym(<<"G", b.wi, b.wo, H, alphaU, alphaV>>)
      IN
        IF D.kind = "zero" THEN VZero
        ELSE IF IsReflect(b)
        THEN LET value == VDiv(VMul(VMul(F, D), G),
                               VNum(RMul(Rat(4, 1), RAbs(cosTheta(b.wi)))))
             IN  VMul(VSym(<<"tex", m_specularReflectance.id>>), value)
        ELSE LET sqrtDenom == RAdd(RMul(etaI, dot(b.wi, H)), RMul(etaT, dot(b.wo, H)))
                 value == VDiv(VMul(VMul(VMul(OneMinusF, D), G),
                                    VNum(RMul(RMul(etaT, etaT),
                                              RMul(dot(b.wi, H), dot(b.wo, H))))),
                               VNum(RMul(cosTheta(b.wi), RMul(sqrtDenom, sqrtDenom))))
                 scaled == VMul(value, VNum(EvalRadianceScale(b)))
             IN  VMul(VSym(<<"tex", m_specularTransmittance.id>>), VAbs(scaled))

(***************************************************************************)
(* pdf                                                                     *)
(***************************************************************************)
\* (mutant) pdf without the test of the type mask
PdfStopsNoMask(b, measure) ==
    \/ measure # "ESolidAngle"
    \/ IsReflect(b) /\ (b.component # -1 /\ b.component # 0)
    \/ ~IsReflect(b) /\ (b.component # -1 /\ b.component # 1)

\* the returns of 0.0f that precede the half-vector
PdfStops(b, measure) ==
    \/ measure # "ESolidAngle"
    \/ IsReflect(b) /\ ReflectionNotRequested(b)
    \/ ~IsReflect(b) /\ TransmissionNotRequested(b)

\* (mutant) the Fresnel weight applied whichever components are enabled
FresnelWeightedAlways(b) == TRUE

\* "if (hasTransmission && hasReflection)": whether prob is multiplied by the
\* Fresnel term
FresnelWeighted(b) == hasTransmission(b) /\ hasReflection(b)

\* "Jacobian of the half-direction transform"
dwh_dwo(b) ==
    LET etaI == EtaI(b.wi)
        etaT == EtaT(b.wi)
        H == HalfVector(b)
        sqrtDenom == RAdd(RMul(etaI, dot(b.wi, H)), RMul(etaT, dot(b.wo, H)))
    IN  IF IsReflect(b)
        THEN RDiv(ROne, RMul(Rat(4, 1), dot(b.wo, H)))
        ELSE RDiv(RMul(RMul(etaT, etaT), dot(b.wo, H)),
                  RMul(sqrtDenom, sqrtDenom))

\* the density from the half-vector on, for the roughness given
PdfValue(b, alphaU, alphaV) ==
    LET H == HalfVector(b)
        prob0 == VSym(<<"P", H, alphaU, alphaV>>)
        prob == IF FresnelWeighted(b)
                THEN VMul(prob0, IF IsReflect(b)
                                 THEN VSym(<<"F", dot(b.wi, H)>>)
                                 ELSE VSym(<<"1-F", dot(b.wi, H)>>))
                ELSE prob0
    IN  VAbs(VMul(prob, VNum(dwh_dwo(b))))

Pdf(b, measure) ==
    IF PdfStops(b, measure) THEN VZero
    ELSE PdfValue(b, Widened(Roughness(m_alphaU), b.wi),
                     Widened(Roughness(m_alphaV), b.wi))

\* eval and pdf are modelled where they return before H or where |H| is a rational
QueryDefined(b, measure) ==
    \/ EvalStops(b, measure) /\ PdfStops(b, measure)
    \/ CanNormalize(HalfVectorRaw(b))

(***************************************************************************)
(* sample: the part the two variants share word for word.  m is the normal *)
(* m_distribution.sample returned, u what bRec.sampler->next1D() returns   *)
(* if it is called.                                                        *)
(***************************************************************************)
\* (mutant) the Fresnel test made with >= in place of >
choseReflectionStrict(b, m, u) ==
    IF hasReflection(b) /\ hasTransmission(b)
    THEN ~RGe(u, env.F)
    ELSE hasReflection(b)

\* choseReflection after the Fresnel test
choseReflection(b, m, u) ==
    IF hasReflection(b) /\ hasTransmission(b)
    THEN ~RGt(u, env.F)
    ELSE hasReflection(b)

\* the number of calls of bRec.sampler->next1D()
Draws1D(b) == IF hasReflection(b) /\ hasTransmission(b) THEN 1 ELSE 0

\* (mutant) the reflective branch without its side check
ReflectNoSideCheck(b1, n1D) ==
    [status |-> "ok", b |-> b1, n1D |-> n1D, nM |-> 1, branch |-> "reflection"]

\* the reflective branch once bRec.wo, sampledComponent and sampledType are
\* written (b1): the side check
ReflectSideCheck(b1, n1D) ==
    [status |-> IF RLe(RMul(cosTheta(b1.wi), cosTheta(b1.wo)), RZero)
                THEN "side" ELSE "ok",
     b |-> b1, n1D |-> n1D, nM |-> 1, branch |-> "reflection"]

\* the transmissive branch once bRec.wo, sampledComponent and sampledType are
\* written (b1): the side check
TransmitSideCheck(b1, n1D) ==
    [status |-> IF RGe(RMul(cosTheta(b1.wi), cosTheta(b1.wo)), RZero)
                THEN "side" ELSE "ok",
     b |-> b1, n1D |-> n1D, nM |-> 1, branch |-> "transmission"]

\* the transmissive branch, r being what refract returned
TransmitBranch(b, r, n1D) ==
    IF ~r.ok
    THEN [status |-> "tir", b |-> b, n1D |-> n1D, nM |-> 1,
          branch |-> "transmission"]
    ELSE TransmitSideCheck([b EXCEPT !.wo = r.wo,
                                     !.sampledComponent = 1,
                                     !.sampledType = "EGlossyTransmission"], n1D)

\* status: "disabled" (no component), "tir" (refract returned false),
\* "side" (a side check failed) or "ok"; b: the query record as left behind;
\* branch: the branch of "if (choseReflection)" that ran
SampleDirection(b, m, u) ==
    IF ~hasReflection(b) /\ ~hasTransmission(b)
    THEN [status |-> "disabled", b |-> b, n1D |-> 0, nM |-> 0, branch |-> "none"]
    ELSE IF choseReflection(b, m, u)
    THEN ReflectSideCheck([b EXCEPT !.wo = reflect(b.wi, m),
                                    !.sampledComponent = 0,
                                    !.sampledType = "EGlossyReflection"],
                          Draws1D(b))
    ELSE TransmitBranch(b, refract(b.wi, m, EtaI(b.wi), EtaT(b.wi)), Draws1D(b))

Unwritten == [kind |-> "unwritten"]

\* sampleAlphaU, sampleAlphaV: the pair handed to m_distribution.sample
SampleAlpha(b) ==
    << Widened(Roughness(m_alphaU), b.wi), Widened(Roughness(m_alphaV), b.wi) >>

\* (mutant) the factor applied in both transport modes
SampleRadianceScaleAlways(b) ==
    RDiv(RMul(EtaI(b.wi), EtaI(b.wi)), RMul(EtaT(b.wi), EtaT(b.wi)))

\* (bRec.quantity == ERadiance) ? ((etaI*etaI) / (etaT*etaT)) : (Float) 1
SampleRadianceScale(b) ==
    IF b.quantity = "ERadiance"
    THEN RDiv(RMul(EtaI(b.wi), EtaI(b.wi)), RMul(EtaT(b.wi), EtaT(b.wi)))
    ELSE ROne

\* sample(bRec, _sample): the weight of the sampled direction
SampleWeight(b, m) ==
    LET alphaU == Roughness(m_alphaU)
        alphaV == Roughness(m_alphaV)
        sampleAlphaU == Widened(alphaU, b.wi)
        sampleAlphaV == Widened(alphaV, b.wi)
        result == IF b.sampledComponent = 0
                  THEN VSym(<<"tex", m_specularReflectance.id>>)
                  ELSE VMul(VSym(<<"tex", m_specularTransmittance.id>>),
                            VNum(SampleRadianceScale(b)))
        numerator == VMul(VMul(VSym(<<"D", m, alphaU, alphaV>>),
                               VSym(<<"G", b.wi, b.wo, m, alphaU, alphaV>>)),
                          VNum(dot(b.wi, m)))
        denominator == VMul(VSym(<<"P", m, sampleAlphaU, sampleAlphaV>>),
                            VNum(cosTheta(b.wi)))
    IN  VMul(result, VAbs(VDiv(numerator, denominator)))

\* what the first variant returns, d being the direction sampled
Sample1Return(d, m) ==
    [b |-> d.b, status |-> d.status, n1D |-> d.n1D, nM |-> d.nM,
     branch |-> d.branch, pdf |-> Unwritten,
     result |-> IF d.status = "ok" THEN SampleWeight(d.b, m) ELSE VZero]

Sample1(b, m, u) == Sample1Return(SampleDirection(b, m, u), m)

\* (mutant) the guard left out: eval is returned whatever the density
Sample2NoGuard(d, p) ==
    [b |-> d.b, status |-> d.status, n1D |-> d.n1D, nM |-> d.nM,
     branch |-> d.branch, pdf |-> p, result |-> Eval(d.b, "ESolidAngle")]

\* "Guard against numerical imprecisions": p is what pdf(bRec, ESolidAngle)
\* returned and is written to _pdf
Sample2Guard(d, p) ==
    [b |-> d.b, status |-> d.status, n1D |-> d.n1D, nM |-> d.nM,
     branch |-> d.branch, pdf |-> p,
     result |-> IF p.kind = "zero" THEN VZero ELSE Eval(d.b, "ESolidAngle")]

\* (mutant) the density written before the side check
Sample2ReturnEarlyPdf(d) ==
    IF d.status \in {"disabled", "tir"}
    THEN [b |-> d.b, status |-> d.status, n1D |-> d.n1D, nM |-> d.nM,
          branch |-> d.branch, pdf |-> Unwritten, result |-> VZero]
    ELSE IF d.status = "side"
    THEN [b |-> d.b, status |-> d.status, n1D |-> d.n1D, nM |-> d.nM,
          branch |-> d.branch, pdf |-> Pdf(d.b, "ESolidAngle"), result |-> VZero]
    ELSE Sample2Guard(d, Pdf(d.b, "ESolidAngle"))

\* what the second variant returns, d being the direction sampled
Sample2Return(d) ==
    IF d.status # "ok"
    THEN [b |-> d.b, status |-> d.status, n1D |-> d.n1D, nM |-> d.nM,
          branch |-> d.branch, pdf |-> Unwritten, result |-> VZero]
    ELSE Sample2Guard(d, Pdf(d.b, "ESolidAngle"))

\* sample(bRec, _pdf, _sample)
Sample2(b, m, u) == Sample2Return(SampleDirection(b, m, u))

\* sample is modelled where the transmissive branch is not taken or refract is
SampleDefined(b, m, u) ==
    \/ ~hasReflection(b) /\ ~hasTransmission(b)
    \/ choseReflection(b, m, u)
    \/ CanRefract(b.wi, m, EtaI(b.wi), EtaT(b.wi))

(***************************************************************************)
(* The query specification                                                 *)
(***************************************************************************)
\* exterior / interior index of the materials queried: air over water, water
\* over air, and air over two glasses of index 5/3 and 6/5
QueryIORs == { <<ROne, Rat(4, 3)>>, <<Rat(4, 3), ROne>>, <<ROne, Rat(5, 3)>>,
               <<ROne, Rat(6, 5)>> }

\* what the collaborators return in one behaviour
EnvSet ==
    { [F |-> Rat(1, 2), Dzero |-> FALSE, Gzero |-> FALSE, Pzero |-> FALSE],
      [F |-> Rat(1, 2), Dzero |-> TRUE, Gzero |-> FALSE, Pzero |-> FALSE],
      [F |-> Rat(1, 2), Dzero |-> FALSE, Gzero |-> TRUE, Pzero |-> FALSE],
      [F |-> Rat(1, 2), Dzero |-> FALSE, Gzero |-> FALSE, Pzero |-> TRUE] }

\* unit directions with rational components
WiSet ==
    { Vec(RZero, RZero, ROne), Vec(Rat(4, 5), RZero, Rat(3, 5)),
      Vec(RZero, RZero, Rat(-1, 1)), Vec(Rat(4, 5), RZero, Rat(-3, 5)),
      Vec(Rat(3, 5), RZero, Rat(-4, 5)) }

WoSet ==
    { Vec(RZero, RZero, ROne), Vec(Rat(-4, 5), RZero, Rat(3, 5)),
      Vec(ROne, RZero, RZero), Vec(RZero, RZero, Rat(-1, 1)) }

\* micro-normals m_distribution.sample can return
NormalSet == { Vec(RZero, RZero, ROne), Vec(Rat(3, 5), RZero, Rat(4, 5)) }

\* values of bRec.sampler->next1D()
Uniform1D == { RZero, Rat(1, 2), Rat(3, 4) }

MaskSet == { {"EGlossyReflection"}, {"EGlossyTransmission"},
             {"EGlossyReflection", "EGlossyTransmission"} }

Measures == {"ESolidAngle", "EDiscrete"}

InitQuery ==
    /\ \E ior \in QueryIORs :
          /\ m_extIOR = ior[1]
          /\ m_intIOR = ior[2]
    /\ env \in EnvSet
    /\ pc = "configured"
    /\ error = "none"
    /\ origin = "props"
    /\ m_distribution = "EBeckmann"
    /\ m_alphaU = ConstantTexture("ctorAlphaU", Rat(1, 10))
    /\ m_alphaV = ConstantTexture("ctorAlphaU", Rat(1, 10))
    /\ m_specularReflectance = ConstantTexture("ctorRefl", ROne)
    /\ m_specularTransmittance = ConstantTexture("ctorTrans", ROne)
    /\ m_components = Components(m_alphaU, m_alphaV, m_specularReflectance,
                                 m_specularTransmittance)
    /\ m_usesRayDifferentials = FALSE
    /\ nChildren = 0
    /\ baseAddChild = FALSE
    /\ bRec = NoQuery
    /\ call = NoCall

\* the caller fills in a query record; a behaviour follows one record through
\* one call
NewQuery(wi, wo, component, typeMask, quantity) ==
    /\ pc = "configured"
    /\ bRec.wi = Unset
    /\ bRec' = [wi |-> wi, wo |-> wo, component |-> component,
                typeMask |-> typeMask, quantity |-> quantity,
                sampledComponent |-> -1, sampledType |-> "none"]
    /\ call' = NoCall
    /\ UNCHANGED <<matVars, setupVars, env>>

EvalCall(measure) ==
    /\ pc = "configured"
    /\ bRec.wi # Unset
    /\ call.op = "none"
    /\ QueryDefined(bRec, measure)
    /\ call' = [op |-> "eval", measure |-> measure, m |-> Unset, u |-> RZero,
                status |-> "none", n1D |-> 0, nM |-> 0, branch |-> "none",
                alphaM |-> Unset, pdf |-> Unwritten,
                result |-> Eval(bRec, measure)]
    /\ UNCHANGED <<matVars, setupVars, env, bRec>>

PdfCall(measure) ==
    /\ pc = "configured"
    /\ bRec.wi # Unset
    /\ call.op = "none"
    /\ QueryDefined(bRec, measure)
    /\ call' = [op |-> "pdf", measure |-> measure, m |-> Unset, u |-> RZero,
                status |-> "none", n1D |-> 0, nM |-> 0, branch |-> "none",
                alphaM |-> Unset, pdf |-> Unwritten,
                result |-> Pdf(bRec, measure)]
    /\ UNCHANGED <<matVars, setupVars, env, bRec>>

\* the call record of a sample call that returned r
SampleCallRecord(op, r, m, u) ==
    [op |-> op, measure |-> "ESolidAngle",
     m |-> IF r.nM = 1 THEN m ELSE Unset,
     u |-> IF r.n1D = 1 THEN u ELSE RZero,
     status |-> r.status, n1D |-> r.n1D, nM |-> r.nM, branch |-> r.branch,
     alphaM |-> IF r.nM = 1 THEN SampleAlpha(r.b) ELSE Unset,
     pdf |-> r.pdf, result |-> r.result]

Sample1Call(m, u) ==
    /\ pc = "configured"
    /\ bRec.wi # Unset
    /\ call.op = "none"
    /\ SampleDefined(bRec, m, u)
    /\ \E r \in {Sample1(bRec, m, u)} :
          /\ bRec' = r.b
          /\ call' = SampleCallRecord("sample1", r, m, u)
    /\ UNCHANGED <<matVars, setupVars, env>>

Sample2Call(m, u) ==
    /\ pc = "configured"
    /\ bRec.wi # Unset
    /\ call.op = "none"
    /\ SampleDefined(bRec, m, u)
    /\ \E r \in {Sample2(bRec, m, u)} :
          /\ bRec' = r.b
          /\ call' = SampleCallRecord("sample2", r, m, u)
    /\ UNCHANGED <<matVars, setupVars, env>>

NextQuery ==
    \/ \E wi \in WiSet, wo \in WoSet, component \in {-1, 0, 1},
          typeMask \in MaskSet, quantity \in {"ERadiance", "EImportance"} :
          NewQuery(wi, wo, component, typeMask, quantity)
    \/ \E measure \in Measures : EvalCall(measure)
    \/ \E measure \in Measures : PdfCall(measure)
    \/ \E m \in NormalSet, u \in Uniform1D : Sample1Call(m, u)
    \/ \E m \in NormalSet, u \in Uniform1D : Sample2Call(m, u)

SpecQuery == InitQuery /\ [][NextQuery]_vars

(***************************************************************************)
(* Properties of the life cycle (Spec)                                     *)
(***************************************************************************)

\* C1: every way of setting the material up ends in a fatal configuration
\* error unless the exterior and the interior index are both strictly
\* positive and differ; no material with a non-positive or an equal pair of
\* indices becomes usable for eval / pdf / sample.
C1_UsableImpliesValidIndices ==
    pc = "configured" =>
        /\ RGt(m_extIOR, RZero)
        /\ RGt(m_intIOR, RZero)
        /\ m_extIOR # m_intIOR

\* configure has run to its end or has raised the anisotropy error
AfterConfigure == pc = "configured" \/ error = "anisotropy"

\* C2 (as stated): after the constructor and any addChild calls, configure
\* raises the anisotropy error exactly when the two roughness values differ
\* and the family is not Ashikhmin-Shirley; with equal values it never raises
\* it and does not set the anisotropic flag.
C2_ErrorIffValuesDiffer ==
    (origin = "props" /\ AfterConfigure) =>
        /\ (error = "anisotropy") <=>
              (m_alphaU.value # m_alphaV.value
                  /\ m_distribution # "EAshikhminShirley")
        /\ (pc = "configured" /\ m_alphaU.value = m_alphaV.value) =>
              /\ "EAnisotropic" \notin m_components[1]
              /\ "EAnisotropic" \notin m_components[2]

\* C2 (amended): configure raises the anisotropy error exactly when m_alphaU
\* and m_alphaV are two texture objects and the family is not
\* Ashikhmin-Shirley, and sets the anisotropic flag on both components exactly
\* when they are two objects; two objects that hold the same value count as
\* different, and different values are always held by two objects.
C2_ErrorIffObjectsDiffer ==
    AfterConfigure =>
        /\ (error = "anisotropy") <=>
              (m_alphaU.id # m_alphaV.id /\ m_distribution # "EAshikhminShirley")
        /\ pc = "configured" =>
              \A i \in 1..2 :
                  ("EAnisotropic" \in m_components[i]) <=> (m_alphaU.id # m_alphaV.id)
        /\ m_alphaU.value # m_alphaV.value => m_alphaU.id # m_alphaV.id

\* the error raised for two roughness textures of one value, after addChild
C2_SameValueTwoObjects ==
    /\ origin = "props"
    /\ nChildren > 0
    /\ error = "anisotropy"
    /\ m_alphaU.value = m_alphaV.value

\* one of the two roughness textures is not constant
RoughnessVaries == ~m_alphaU.constant \/ ~m_alphaV.constant

\* one of the four textures is not constant
AnyTextureVaries ==
    \/ RoughnessVaries
    \/ ~m_specularReflectance.constant
    \/ ~m_specularTransmittance.constant

\* C13 (as stated): after configure(), if one of the four textures is not
\* constant the spatially-varying flag is set on both the reflection and the
\* transmission component; if all four are constant it is set on neither.
C13_FlagOnBothComponents ==
    pc = "configured" =>
        \A i \in 1..2 : ("ESpatiallyVarying" \in m_components[i]) <=> AnyTextureVaries

\* C13 (amended): after configure(), the spatially-varying flag is set on the
\* reflection component exactly when a roughness texture or the reflectance
\* texture is not constant, and on the transmission component exactly when a
\* roughness texture or the transmittance texture is not constant; so it is
\* set on at least one component exactly when one of the four textures is not
\* constant, and on neither when all four are constant.
C13_FlagPerComponent ==
    pc = "configured" =>
        /\ ("ESpatiallyVarying" \in m_components[1]) <=>
              (RoughnessVaries \/ ~m_specularReflectance.constant)
        /\ ("ESpatiallyVarying" \in m_components[2]) <=>
              (RoughnessVaries \/ ~m_specularTransmittance.constant)
        /\ ("ESpatiallyVarying" \in m_components[1] \cup m_components[2]) <=>
              AnyTextureVaries

\* configure() has run with a reflectance texture that is not constant and
\* three constant textures
C13_OnlyReflectanceVaries ==
    /\ pc = "configured"
    /\ ~m_specularReflectance.constant
    /\ ~RoughnessVaries
    /\ m_specularTransmittance.constant
    /\ "ESpatiallyVarying" \in m_components[1]
    /\ "ESpatiallyVarying" \notin m_components[2]

(***************************************************************************)
(* Properties of the queries (SpecQuery)                                   *)
(***************************************************************************)
\* a query record has been filled in and eval / pdf are modelled on it
HasQuery == bRec.wi # Unset /\ QueryDefined(bRec, "ESolidAngle")

\* the component of the query's classification: 0 reflective, 1 transmissive
Classification(b) == IF IsReflect(b) THEN 0 ELSE 1

\* the selector is neither 'any' nor the classification's index, or the type
\* mask lacks the classification's bit
ComponentExcluded(b) ==
    \/ b.component # -1 /\ b.component # Classification(b)
    \/ (IF IsReflect(b) THEN "EGlossyReflection" ELSE "EGlossyTransmission")
          \notin b.typeMask

\* C3: eval and pdf both return zero when the measure is not the solid angle
\* and when the component of the query's classification is excluded by the
\* selector or the type mask, and they agree on whether a query is excluded.
C3_ExcludedQueriesAreZero ==
    bRec.wi # Unset =>
        /\ \A measure \in Measures :
              QueryDefined(bRec, measure) =>
                  /\ (measure # "ESolidAngle" \/ ComponentExcluded(bRec)) =>
                        /\ Eval(bRec, measure) = VZero
                        /\ Pdf(bRec, measure) = VZero
                  /\ EvalStops(bRec, measure) <=> PdfStops(bRec, measure)
        /\ (call.op \in {"eval", "pdf"}
               /\ (call.measure # "ESolidAngle" \/ ComponentExcluded(bRec))) =>
              call.result = VZero

\* pdf was called under the solid angle measure on a query whose type mask
\* lacks the bit of its classification
C3_PdfOfExcluded ==
    /\ call.op = "pdf"
    /\ call.measure = "ESolidAngle"
    /\ bRec.component = -1
    /\ ComponentExcluded(bRec)
    /\ CanNormalize(HalfVectorRaw(bRec))

\* a sample call has returned
Sampled == call.op \in {"sample1", "sample2"}

\* C4: whenever the first sampling variant returns a non-zero weight, with
\* reflection only, transmission only or both enabled and in either transport
\* mode, eval of the sampled query divided by pdf of it equals that weight.
C4_EvalOverPdfIsWeight ==
    (call.op = "sample1" /\ call.result # VZero) =>
        VDiv(Eval(bRec, "ESolidAngle"), Pdf(bRec, "ESolidAngle")) = call.result

\* total internal reflection for the incoming direction wi and the normal m
TotalInternalReflection(wi, m) ==
    RLt(cosThetaTSqr(wi, m, EtaI(wi), EtaT(wi)), RZero)

\* C5: in both sampling variants, when the transmissive branch is taken and
\* 1 + (etaI/etaT)^2 (c^2 - 1) < 0, the call returns zero and leaves the query
\* record as it was: bRec.wo is not written, sampledComponent and sampledType
\* stay; no transmitted direction is reported under total internal reflection.
C5_TotalInternalReflection ==
    [][ ( /\ call.op = "none"
          /\ call'.op \in {"sample1", "sample2"}
          /\ call'.branch = "transmission"
          /\ TotalInternalReflection(bRec.wi, call'.m) )
        => ( /\ call'.result = VZero
             /\ call'.pdf = Unwritten
             /\ bRec' = bRec
             /\ bRec'.sampledComponent # 1
             /\ bRec'.sampledType # "EGlossyTransmission" ) ]_vars

\* a sample call took the transmissive branch and met total internal reflection
C5_Rejected ==
    /\ Sampled
    /\ call.branch = "transmission"
    /\ TotalInternalReflection(bRec.wi, call.m)
    /\ call.status = "tir"

\* v carries a Fresnel factor F or 1 - F
HasFresnel(v) == \E s \in DOMAIN v.sym : s[1] \in {"F", "1-F"}

\* the Fresnel factor of the query's classification at H
FresnelSymbol(b) ==
    << IF IsReflect(b) THEN "F" ELSE "1-F", dot(b.wi, HalfVector(b)) >>

\* the distribution's sampling density at H for the widened roughness
DpdfSymbol(b) ==
    << "P", HalfVector(b), Widened(Roughness(m_alphaU), b.wi),
       Widened(Roughness(m_alphaV), b.wi) >>

\* C6 for the density p and the value e of the query b
FresnelWeightIffBoth(b, p, e) ==
    /\ p.kind = "val" =>
          /\ HasFresnel(p) <=> (hasReflection(b) /\ hasTransmission(b))
          /\ (hasReflection(b) /\ hasTransmission(b)) =>
                /\ MExp(p.sym, FresnelSymbol(b)) = 1
                /\ p.sym = MMul(MSym(DpdfSymbol(b)), MSym(FresnelSymbol(b)))
          /\ ~(hasReflection(b) /\ hasTransmission(b)) =>
                /\ p.sym = MSym(DpdfSymbol(b))
                /\ p.coef = RAbs(dwh_dwo(b))
    /\ e.kind = "val" => MExp(e.sym, FresnelSymbol(b)) = 1

\* C6: pdf multiplies the distribution's sampling density at H by F (reflective
\* query) or 1 - F (transmissive query) if and only if both components are
\* enabled; with one component enabled it returns |D_pdf(H) * Jacobian| with
\* no Fresnel factor, while eval of the same query still contains F or 1 - F.
C6_FresnelWeightIffBothEnabled ==
    (HasQuery /\ ~PdfStops(bRec, "ESolidAngle")) =>
        FresnelWeightIffBoth(bRec, Pdf(bRec, "ESolidAngle"),
                             Eval(bRec, "ESolidAngle"))

\* pdf returned a density for a query with one component enabled whose value
\* is not zero
C6_SingleComponentDensity ==
    /\ call.op = "pdf"
    /\ call.result.kind = "val"
    /\ ~HasFresnel(call.result)
    /\ hasReflection(bRec) # hasTransmission(bRec)
    /\ Eval(bRec, "ESolidAngle").kind = "val"

\* the second sampling variant has written _pdf
Sample2Wrote == call.op = "sample2" /\ call.status = "ok"

\* C7 (as stated): in the second sampling variant, once the direction has
\* passed the side check, the density written is the density of the query at
\* the non-widened roughness.
C7_DensityAtPlainRoughness ==
    Sample2Wrote =>
        call.pdf = PdfValue(bRec, Roughness(m_alphaU), Roughness(m_alphaV))

\* every call of the distribution's sampling density in v is made with the
\* widened roughness
DensityAtWidened(v) ==
    \A s \in DOMAIN v.sym :
        s[1] = "P" => /\ s[3] = Widened(Roughness(m_alphaU), bRec.wi)
                      /\ s[4] = Widened(Roughness(m_alphaV), bRec.wi)

\* C7 (amended): in the second sampling variant, once the direction has passed
\* the side check, the density written is what pdf returns for the query,
\* computed at the widened roughness; if it is zero the value returned is zero,
\* otherwise the value returned is eval of the query, so a non-zero value comes
\* with a non-zero density.  Before the side check is passed nothing is written.
C7_DensityIsPdfOfQuery ==
    (call.op = "sample2") =>
        /\ call.status # "ok" => call.pdf = Unwritten /\ call.result = VZero
        /\ call.status = "ok" =>
              /\ call.pdf = Pdf(bRec, "ESolidAngle")
              /\ call.pdf.kind = "val" => DensityAtWidened(call.pdf)
              /\ call.pdf.kind = "zero" => call.result = VZero
              /\ call.pdf.kind # "zero" => call.result = Eval(bRec, "ESolidAngle")
              /\ call.result # VZero => call.pdf.kind # "zero"

\* the second variant returned a value with a density for an incoming
\* direction off the normal, where the widening factor is not 1
C7_ValueWithDensity ==
    /\ Sample2Wrote
    /\ call.pdf.kind = "val"
    /\ call.result.kind = "val"
    /\ RAbs(cosTheta(bRec.wi)) # ROne

\* (etaI / etaT)^2 for the incoming direction of b
IndexRatioSqr(b) ==
    RDiv(RMul(EtaI(b.wi), EtaI(b.wi)), RMul(EtaT(b.wi), EtaT(b.wi)))

\* the query b traced in the transport mode q
InMode(b, q) == [b EXCEPT !.quantity = q]

\* vR, vI: the result under radiance and under importance transport
ScaledIffTransmissive(transmissive, vR, vI, ratio) ==
    IF transmissive THEN vR = VMul(vI, VNum(ratio)) ELSE vR = vI

\* C8: the squared index ratio (etaI/etaT)^2 is multiplied into the result if
\* and only if the query is transmissive and the transport mode is radiance;
\* eval and the first sampling variant apply it in the same cases, neither
\* under importance transport and neither to a reflective result.
C8_RadianceScale ==
    /\ (HasQuery /\ ~EvalStops(bRec, "ESolidAngle")) =>
          /\ ScaledIffTransmissive(~IsReflect(bRec),
                                   Eval(InMode(bRec, "ERadiance"), "ESolidAngle"),
                                   Eval(InMode(bRec, "EImportance"), "ESolidAngle"),
                                   IndexRatioSqr(bRec))
          /\ call.op = "eval" /\ call.measure = "ESolidAngle" =>
                call.result = Eval(bRec, "ESolidAngle")
    /\ (call.op = "sample1" /\ call.status = "ok") =>
          /\ ScaledIffTransmissive(bRec.sampledComponent = 1,
                                   SampleWeight(InMode(bRec, "ERadiance"), call.m),
                                   SampleWeight(InMode(bRec, "EImportance"), call.m),
                                   IndexRatioSqr(bRec))
          /\ (bRec.sampledComponent = 1) <=> ~IsReflect(bRec)
          /\ call.result = SampleWeight(bRec, call.m)
          /\ IndexRatioSqr(bRec) # ROne

\* the first variant returned a weight for a transmitted direction under
\* radiance transport
C8_TransmittedRadiance ==
    /\ call.op = "sample1"
    /\ call.result.kind = "val"
    /\ bRec.sampledComponent = 1
    /\ bRec.quantity = "ERadiance"
    /\ Eval(bRec, "ESolidAngle").kind = "val"

\* C9: in both sampling variants, with no component enabled the call returns
\* zero without drawing a normal or a random number; with one component
\* enabled its branch is taken and no 1D random number is drawn; with both
\* enabled one 1D random number u is drawn and reflection is taken when
\* u <= F, transmission when u > F.  The branch taken is an enabled component.
C9_BranchChoice ==
    Sampled =>
        /\ (~hasReflection(bRec) /\ ~hasTransmission(bRec)) =>
              /\ call.result = VZero
              /\ call.nM = 0 /\ call.n1D = 0
              /\ call.branch = "none"
        /\ (hasReflection(bRec) /\ ~hasTransmission(bRec)) =>
              call.branch = "reflection" /\ call.n1D = 0 /\ call.nM = 1
        /\ (~hasReflection(bRec) /\ hasTransmission(bRec)) =>
              call.branch = "transmission" /\ call.n1D = 0 /\ call.nM = 1
        /\ (hasReflection(bRec) /\ hasTransmission(bRec)) =>
              /\ call.n1D = 1 /\ call.nM = 1
              /\ RLe(call.u, env.F) => call.branch = "reflection"
              /\ RGt(call.u, env.F) => call.branch = "transmission"
        /\ call.branch = "reflection" => hasReflection(bRec)
        /\ call.branch = "transmission" => hasTransmission(bRec)

\* both components enabled and the number drawn equal to F
C9_DrawEqualsFresnel ==
    /\ call.op = "sample2"
    /\ hasReflection(bRec) /\ hasTransmission(bRec)
    /\ call.u = env.F
    /\ call.branch = "reflection"

\* cos(incoming) * cos(outgoing) of the query record
CosProduct(b) == RMul(cosTheta(b.wi), cosTheta(b.wo))

\* C10: when a sampling variant returns a non-zero result, sampledComponent
\* and sampledType agree with the side of the direction written (0 and glossy
\* reflection: product of the cosines > 0; 1 and glossy transmission: < 0); a
\* direction written on the wrong side of its branch or with a zero product
\* gives a zero result; eval and pdf classify a successfully sampled query as
\* the component sampling chose.
C10_ComponentMatchesGeometry ==
    Sampled =>
        /\ call.result # VZero =>
              \/ /\ bRec.sampledComponent = 0
                 /\ bRec.sampledType = "EGlossyReflection"
                 /\ RGt(CosProduct(bRec), RZero)
              \/ /\ bRec.sampledComponent = 1
                 /\ bRec.sampledType = "EGlossyTransmission"
                 /\ RLt(CosProduct(bRec), RZero)
        /\ (call.branch = "reflection" /\ RLe(CosProduct(bRec), RZero)) =>
              call.result = VZero
        /\ (call.branch = "transmission" /\ call.status # "tir"
               /\ RGe(CosProduct(bRec), RZero)) =>
              call.result = VZero
        /\ call.result # VZero =>
              /\ bRec.sampledComponent = Classification(bRec)
              /\ ~EvalStops(bRec, "ESolidAngle")
              /\ ~PdfStops(bRec, "ESolidAngle")

\* the second variant returned a value for a direction it reflected
C10_ReflectedValue ==
    /\ call.op = "sample2"
    /\ call.result.kind = "val"
    /\ bRec.sampledComponent = 0
    /\ hasTransmission(bRec)

\* the roughness of the texture tex as the distribution receives it for the
\* incoming direction wi: widened by 1.2 - 0.2 sqrt(|cos(incoming)|), a factor
\* that is 1 at normal incidence, or not widened
RoughnessFor(tex, wi, widened) ==
    << tex.value,
       IF widened /\ RAbs(cosTheta(wi)) # ROne THEN <<RAbs(cosTheta(wi))>> ELSE <<>> >>

\* in the value v every call of the distribution's sampling density receives
\* the widened pair and every call of D and G the unwidened pair
RolesKept(v, wi) ==
    \A s \in DOMAIN v.sym :
        /\ s[1] = "P" => /\ s[3] = RoughnessFor(m_alphaU, wi, TRUE)
                         /\ s[4] = RoughnessFor(m_alphaV, wi, TRUE)
        /\ s[1] = "D" => /\ s[3] = RoughnessFor(m_alphaU, wi, FALSE)
                         /\ s[4] = RoughnessFor(m_alphaV, wi, FALSE)
        /\ s[1] = "G" => /\ s[5] = RoughnessFor(m_alphaU, wi, FALSE)
                         /\ s[6] = RoughnessFor(m_alphaV, wi, FALSE)

\* the collaborators' calls that make up the value v
CallsIn(v) == {s[1] : s \in DOMAIN v.sym}

\* C11 for the density p and the value e of one query
RolesOfPdfAndEval(p, e, wi) ==
    /\ RolesKept(p, wi) /\ RolesKept(e, wi)
    /\ CallsIn(p) \cap {"D", "G"} = {}
    /\ "P" \notin CallsIn(e)
    /\ p.kind = "val" => "P" \in CallsIn(p)
    /\ e.kind = "val" => {"D", "G"} \subseteq CallsIn(e)

\* C11: for one incoming direction, the roughness pair handed to the
\* distribution's sampling density in pdf, to the distribution's sample routine
\* in both sampling variants and to the sampling density in the denominator of
\* the first variant's weight is the same widened pair, and the pair handed to
\* D and G in eval and in the first variant's numerator is the unwidened pair.
C11_RoughnessRoles ==
    /\ (HasQuery /\ ~PdfStops(bRec, "ESolidAngle")) =>
          RolesOfPdfAndEval(Pdf(bRec, "ESolidAngle"), Eval(bRec, "ESolidAngle"),
                            bRec.wi)
    /\ (Sampled /\ call.nM = 1) =>
          call.alphaM = << RoughnessFor(m_alphaU, bRec.wi, TRUE),
                           RoughnessFor(m_alphaV, bRec.wi, TRUE) >>
    /\ (call.op = "sample1" /\ call.result.kind = "val") =>
          /\ RolesKept(call.result, bRec.wi)
          /\ {"D", "G", "P"} \subseteq CallsIn(call.result)
    /\ (call.op = "sample2" /\ call.pdf.kind = "val") =>
          RolesKept(call.pdf, bRec.wi) /\ "P" \in CallsIn(call.pdf)

\* the first variant returned a weight for an incoming direction off the
\* normal, where the widened pair differs from the unwidened one
C11_WeightOffNormal ==
    /\ call.op = "sample1"
    /\ call.result.kind = "val"
    /\ RAbs(cosTheta(bRec.wi)) # ROne
    /\ call.alphaM # <<Roughness(m_alphaU), Roughness(m_alphaV)>>

\* a query that eval and pdf do not reject, with both directions off the
\* surface plane
OffPlaneQuery ==
    /\ HasQuery
    /\ ~EvalStops(bRec, "ESolidAngle")
    /\ ~PdfStops(bRec, "ESolidAngle")
    /\ cosTheta(bRec.wi) # RZero
    /\ cosTheta(bRec.wo) # RZero

IndexWeightedZ(b) ==
    RAdd(RMul(EtaI(b.wi), cosTheta(b.wi)), RMul(EtaT(b.wi), cosTheta(b.wo)))

\* the index-weighted sum points to the side the orientation of H expects:
\* up when the exterior index is the greater one, down otherwise
OrientationFits(b) ==
    \/ RGt(m_extIOR, m_intIOR) /\ RGt(IndexWeightedZ(b), RZero)
    \/ ~RGt(m_extIOR, m_intIOR) /\ RLt(IndexWeightedZ(b), RZero)

IsCallStep == call.op = "none" /\ call'.op # "none"

\* the fields of the query record that no operation writes are left alone
InputsKept ==
    /\ bRec'.wi = bRec.wi
    /\ bRec'.component = bRec.component
    /\ bRec'.typeMask = bRec.typeMask
    /\ bRec'.quantity = bRec.quantity

\* the direction the branch taken writes for the normal m
DirectionWritten(b, branch, m) ==
    IF branch = "reflection" THEN reflect(b.wi, m)
    ELSE refract(b.wi, m, EtaI(b.wi), EtaT(b.wi)).wo

\* the side check of a sample call failed: zero is returned after wo,
\* sampledComponent and sampledType were overwritten
SideCheckFailedStep ==
    /\ call'.result = VZero
    /\ call'.pdf = Unwritten
    /\ bRec'.wo = DirectionWritten(bRec, call'.branch, call'.m)
    /\ bRec'.sampledComponent = (IF call'.branch = "reflection" THEN 0 ELSE 1)
    /\ bRec'.sampledType = (IF call'.branch = "reflection"
                            THEN "EGlossyReflection" ELSE "EGlossyTransmission")

\* C14: eval and pdf write no field of the query record; a sample call that
\* returns zero because no component is enabled leaves wo, sampledComponent
\* and sampledType as they were; a sample call whose side check fails returns
\* zero after wo, sampledComponent and sampledType were overwritten; the
\* second variant writes its density output only on the paths that pass the
\* side check, and the first variant never does.
C14_WritesOfQueryRecord ==
    [][ IsCallStep =>
          /\ InputsKept
          /\ call'.op \in {"eval", "pdf"} => (bRec' = bRec /\ call'.pdf = Unwritten)
          /\ call'.status = "disabled" =>
                (bRec' = bRec /\ call'.pdf = Unwritten /\ call'.result = VZero)
          /\ call'.status = "side" => SideCheckFailedStep
          /\ call'.op = "sample1" => call'.pdf = Unwritten
          /\ call'.op = "sample2" =>
                ((call'.pdf # Unwritten) <=> (call'.status = "ok")) ]_vars

\* the second variant returned after the side check of a refracted direction
\* failed
C14_RefractedSideCheckFailed ==
    /\ call.op = "sample2"
    /\ call.status = "side"
    /\ call.branch = "transmission"
    /\ bRec.sampledComponent = 1
    /\ call.pdf = Unwritten

====
